---- MODULE Spec2Model ----
(***************************************************************************)
(* A model of arjungandhi/calendar: the source registry (sources.json),    *)
(* the per-source event directories (events/<name>/<uid>.ics), the sync    *)
(* loop and the range / by-uid queries of CalendarManager.                 *)
(*                                                                         *)
(* Strings whose characters matter (uids, source names, file names) are    *)
(* sequences of one-character strings.  Paths are sequences of segments,   *)
(* relative to Config.Dir.  The file system is fault free: the only        *)
(* failures modelled are the ones an input decides (a failed fetch, an     *)
(* undecodable feed, a component the encoder rejects).                     *)
(***************************************************************************)
EXTENDS Integers, Sequences, FiniteSets, TLC

VARIABLES
    sources,   \* the content of sources.json: a sequence of [name, url]
    store,     \* the events directory: directory path -> [exists, files]
    pc,        \* where the running command is: "idle" between commands
    todo,      \* SyncAll's remaining sources (the rest of its range loop)
    log,       \* SyncAll's per-source outcomes printed so far
    ret,       \* what the operation that just returned was given and returned
    prev,      \* sources and store as they were when that operation began
    watch      \* history: the name removed last and not synced since

vars == <<sources, store, pc, todo, log, ret, prev, watch>>

(***************************************************************************)
(* Bounds of the model.                                                    *)
(***************************************************************************)
MaxFeedLen == 2     \* components in one fetched feed
MaxTime == 2        \* the largest instant a query bound takes
MaxSources == 2     \* entries the registry grows to
MaxWall == 3        \* the largest wall-clock reading of a time property

(***************************************************************************)
(* Strings.                                                                *)
(***************************************************************************)
HasSuffix(s, suf) ==
    /\ Len(s) >= Len(suf)
    /\ SubSeq(s, Len(s) - Len(suf) + 1, Len(s)) = suf

IcsSuffix == <<".", "i", "c", "s">>

\* strings.NewReplacer("/", "_", "\\", "_", ":", "_", "*", "_", "?", "_",
\*                     "\"", "_", "<", "_", ">", "_", "|", "_", "@", "_at_")
ReplaceChar(c) ==
    IF c \in {"/", "\\", ":", "*", "?", "\"", "<", ">", "|"} THEN <<"_">>
    ELSE IF c = "@" THEN <<"_", "a", "t", "_">>
    ELSE <<c>>

RECURSIVE sanitizeFilename(_)
sanitizeFilename(s) ==
    IF s = <<>> THEN <<>>
    ELSE ReplaceChar(Head(s)) \o sanitizeFilename(Tail(s))

\* sanitizeFilename(uid) + ".ics"
EventFileName(uid) == sanitizeFilename(uid) \o IcsSuffix

(***************************************************************************)
(* Paths: filepath.Join cleans its result.                                 *)
(***************************************************************************)
RECURSIVE SplitPath(_, _)
\* the "/"-separated elements of s; cur is the element being read
SplitPath(s, cur) ==
    IF s = <<>> THEN <<cur>>
    ELSE IF Head(s) = "/" THEN <<cur>> \o SplitPath(Tail(s), <<>>)
    ELSE SplitPath(Tail(s), Append(cur, Head(s)))

RECURSIVE CleanPath(_, _)
\* filepath.Clean on a relative path: empty and "." elements go, ".." pops
CleanPath(elems, acc) ==
    IF elems = <<>> THEN acc
    ELSE LET h == Head(elems)
             t == Tail(elems)
         IN  IF h = <<>> \/ h = <<".">> THEN CleanPath(t, acc)
             ELSE IF h = <<".", ".">> /\ acc # <<>> /\ acc[Len(acc)] # <<".", ".">>
                  THEN CleanPath(t, SubSeq(acc, 1, Len(acc) - 1))
             ELSE CleanPath(t, Append(acc, h))

EventsDir == << <<"events">> >>

CalendarDir(name) == CleanPath(EventsDir \o SplitPath(name, <<>>), <<>>)

IsPrefix(p, q) == Len(p) <= Len(q) /\ SubSeq(q, 1, Len(p)) = p

(***************************************************************************)
(* Time.  Instants are integers; 0 is the zero time.Time.  A property      *)
(* value is a wall-clock reading w in one of three written forms.          *)
(***************************************************************************)
ZeroTime == 0

NoProp == [present |-> FALSE, form |-> "", w |-> 0, valueParam |-> <<>>, tzid |-> <<>>]

\* time.LoadLocation: the zones of the host's database
KnownZones == {"UTC", "Local", "tzA"}

\* hours east of UTC of a zone (the host's local zone is one hour east)
ZoneOffset(zone) == CASE zone = "UTC" -> 0 [] zone = "Local" -> 1 [] OTHER -> -1

\* time.ParseInLocation of a wall-clock reading
InLocation(w, zone) == w - ZoneOffset(zone)

\* time.Parse("20060102", p.Value): UTC midnight of a bare date
ParseDate(p) ==
    IF p.form = "date" THEN [ok |-> TRUE, t |-> InLocation(p.w, "UTC")]
    ELSE [ok |-> FALSE, t |-> ZeroTime]

\* p.DateTime(loc) of go-ical on a DTSTART / DTEND property
PropDateTime(p, loc) ==
    IF p.form # "datetime" THEN [ok |-> FALSE, t |-> ZeroTime]
    ELSE IF p.tzid # <<>> /\ p.tzid[1] # ""
         THEN IF p.tzid[1] \in KnownZones
              THEN [ok |-> TRUE, t |-> InLocation(p.w, p.tzid[1])]
              ELSE [ok |-> FALSE, t |-> ZeroTime]
    ELSE [ok |-> TRUE, t |-> InLocation(p.w, loc)]

\* a resolver that reads a bare date in the zone of the property
parseEventTimeInZone(p) ==
    IF ~p.present THEN [t |-> ZeroTime, allDay |-> FALSE]
    ELSE LET allDay == \E i \in 1..Len(p.valueParam) : p.valueParam[i] = "DATE"
             loc == IF p.tzid # <<>> /\ p.tzid[1] \in KnownZones
                    THEN p.tzid[1] ELSE "Local"
         IN  IF allDay
             THEN IF ParseDate(p).ok
                  THEN [t |-> InLocation(p.w, loc), allDay |-> TRUE]
                  ELSE [t |-> ZeroTime, allDay |-> FALSE]
             ELSE IF PropDateTime(p, loc).ok
                  THEN [t |-> PropDateTime(p, loc).t, allDay |-> FALSE]
                  ELSE IF ParseDate(p).ok
                       THEN [t |-> ParseDate(p).t, allDay |-> TRUE]
                       ELSE [t |-> ZeroTime, allDay |-> FALSE]

parseEventTime(p) ==
    IF ~p.present THEN [t |-> ZeroTime, allDay |-> FALSE]
    ELSE LET allDay == \E i \in 1..Len(p.valueParam) : p.valueParam[i] = "DATE"
             loc == IF p.tzid # <<>> /\ p.tzid[1] \in KnownZones
                    THEN p.tzid[1] ELSE "Local"
         IN  IF allDay
             THEN IF ParseDate(p).ok
                  THEN [t |-> ParseDate(p).t, allDay |-> TRUE]
                  ELSE [t |-> ZeroTime, allDay |-> FALSE]
             ELSE IF PropDateTime(p, loc).ok
                  THEN [t |-> PropDateTime(p, loc).t, allDay |-> FALSE]
                  ELSE IF ParseDate(p).ok
                       THEN [t |-> ParseDate(p).t, allDay |-> TRUE]
                       ELSE [t |-> ZeroTime, allDay |-> FALSE]

(***************************************************************************)
(* Calendar components and the calendar document (go-ical).                *)
(***************************************************************************)
DateTimeProp(w) ==
    [present |-> TRUE, form |-> "datetime", w |-> w, valueParam |-> <<>>, tzid |-> <<>>]

DateProp(w) ==
    [present |-> TRUE, form |-> "date", w |-> w, valueParam |-> <<"DATE">>, tzid |-> <<>>]

Comp(uid, summary, description, location, dtstart, dtend, encodes) ==
    [uid |-> uid, summary |-> summary, description |-> description,
     location |-> location, dtstart |-> dtstart, dtend |-> dtend,
     encodes |-> encodes]

\* The VEVENT components a feed is made of: two uids that differ only in a
\* replaced character (one of them an all-day event), an event without
\* DTSTART, a component without a uid and a component the encoder rejects.
Components ==
    { Comp(<<"/">>, "s1", "", "", DateTimeProp(2), DateTimeProp(3), TRUE),
      Comp(<<":">>, "s2", "", "", DateProp(2), NoProp, TRUE),
      Comp(<<"c">>, "s1", "d", "l", NoProp, NoProp, TRUE),
      Comp(<<>>,    "s1", "", "", DateTimeProp(2), NoProp, TRUE),
      Comp(<<"c">>, "s2", "", "", DateTimeProp(2), NoProp, FALSE) }

Feeds == UNION { [1..n -> Components] : n \in 0..MaxFeedLen }

\* What http.Get and the decoder make of a URL at one fetch.
Responses ==
    { [transport |-> FALSE, status |-> 200, decodes |-> TRUE, events |-> f] : f \in Feeds }
    \cup { [transport |-> TRUE,  status |-> 0,   decodes |-> FALSE, events |-> <<>>],
           [transport |-> FALSE, status |-> 404, decodes |-> FALSE, events |-> <<>>],
           [transport |-> FALSE, status |-> 200, decodes |-> FALSE, events |-> <<>>] }

\* One content line of a serialized calendar: a tag and what follows it,
\* for a VEVENT the component.
Line(tag, text) == [tag |-> tag, text |-> text]

\* ical.NewCalendar() with VERSION and PRODID set and one child appended
WrapEvent(event) ==
    [version |-> "2.0", prodid |-> "-//arjungandhi/calendar//EN",
     children |-> <<event>>]

\* enc.Encode(eventCal): the encoder rejects a component it finds invalid
EncodeOK(cal) == \A i \in 1..Len(cal.children) : cal.children[i].encodes

Encode(cal) ==
    << Line("BEGIN", "VCALENDAR"),
       Line("VERSION", cal.version),
       Line("PRODID", cal.prodid) >>
    \o [i \in 1..Len(cal.children) |-> Line("VEVENT", cal.children[i])]
    \o << Line("END", "VCALENDAR") >>

\* dec.Decode() followed by cal.Events(): the VEVENT children in order
DecodeOK(data) ==
    /\ Len(data) >= 2
    /\ data[1].tag = "BEGIN"
    /\ data[Len(data)].tag = "END"

IsEventLine(l) == l.tag = "VEVENT"

DecodeEvents(data) ==
    LET evs == SelectSeq(data, IsEventLine)
    IN  [i \in 1..Len(evs) |-> evs[i].text]

(***************************************************************************)
(* The inputs of the operations.                                           *)
(***************************************************************************)
\* Source names as typed on the command line: two plain names, and one
\* that filepath.Join cleans to the directory of another.
Names == { <<"a">>, <<"b">>, <<"a", "/">> }

Source(name, url) == [name |-> name, url |-> url]

UIDs == { c.uid : c \in Components }

Times == 0..MaxTime

\* every directory CalendarDir names
Dirs == { CalendarDir(n) : n \in Names }

NoDir == [exists |-> FALSE, files |-> <<>>]

EmptyDir == [exists |-> TRUE, files |-> <<>>]

(***************************************************************************)
(* The file system under events/.                                          *)
(***************************************************************************)
HasExistingChild(st, d) ==
    \E e \in DOMAIN st : e # d /\ IsPrefix(d, e) /\ st[e].exists

\* os.MkdirAll(dir, 0755): dir and every ancestor of it that is a directory
\* of the model exist afterwards
MkdirAll(st, d) ==
    [e \in DOMAIN st |->
        IF IsPrefix(e, d) /\ ~st[e].exists THEN EmptyDir ELSE st[e]]

\* os.RemoveAll(dir): dir and everything below it
RemoveAll(st, d) ==
    [e \in DOMAIN st |-> IF IsPrefix(d, e) THEN NoDir ELSE st[e]]

\* a ClearDir that removes nothing
ClearDirKeepsFiles(st, d) == st

\* entries, _ := os.ReadDir(dir); os.Remove of every entry: the files go,
\* and so does a subdirectory that is empty
ClearDir(st, d) ==
    [e \in DOMAIN st |->
        IF e = d THEN EmptyDir
        ELSE IF /\ Len(e) = Len(d) + 1
                /\ IsPrefix(d, e)
                /\ st[e].exists
                /\ st[e].files = <<>>
                /\ ~HasExistingChild(st, e)
             THEN NoDir
        ELSE st[e]]

\* os.WriteFile(filepath.Join(dir, filename), data, 0644)
WriteFile(files, name, data) == (name :> data) @@ files

(***************************************************************************)
(* syncSource: the loop over cal.Events().                                 *)
(***************************************************************************)
RECURSIVE SyncLoop(_, _, _)
SyncLoop(events, files, count) ==
    IF events = <<>> THEN [files |-> files, count |-> count]
    ELSE LET event == Head(events)
             eventCal == WrapEvent(event)
         IN  IF event.uid = <<>>
             THEN SyncLoop(Tail(events), files, count)
             ELSE IF ~EncodeOK(eventCal)
             THEN SyncLoop(Tail(events), files, count)
             ELSE SyncLoop(Tail(events),
                           WriteFile(files, EventFileName(event.uid), Encode(eventCal)),
                           count + 1)

\* the error syncSource returns on a response, "" for nil
SyncError(resp) ==
    IF resp.transport THEN "fetch"
    ELSE IF resp.status # 200 THEN "status"
    ELSE IF ~resp.decodes THEN "parse"
    ELSE ""

\* a syncSource that writes first and then removes the entries it listed
SyncStoreClearsLast(st, name, events) ==
    LET dir == CalendarDir(name)
        made == MkdirAll(st, dir)
        done == SyncLoop(events, made[dir].files, 0)
        kept == DOMAIN done.files \ DOMAIN made[dir].files
    IN  [ClearDir(made, dir) EXCEPT
            ![dir] = [exists |-> TRUE, files |-> [f \in kept |-> done.files[f]]]]

\* the store after syncSource(s) on a response that was fetched and decoded
SyncStore(st, name, events) ==
    LET dir == CalendarDir(name)
        cleared == ClearDir(MkdirAll(st, dir), dir)
        done == SyncLoop(events, cleared[dir].files, 0)
    IN  [cleared EXCEPT ![dir] = [exists |-> TRUE, files |-> done.files]]

SyncCount(events) == SyncLoop(events, <<>>, 0).count

(***************************************************************************)
(* Reading events back.                                                    *)
(***************************************************************************)
\* readEvent(path, calName) on the bytes of one file
ReadEventOK(data) == DecodeOK(data) /\ Len(DecodeEvents(data)) > 0

readEvent(data, calName) ==
    LET ie == DecodeEvents(data)[1]
    IN  [uid |-> ie.uid, summary |-> ie.summary,
         description |-> ie.description, location |-> ie.location,
         start |-> parseEventTime(ie.dtstart).t,
         end |-> parseEventTime(ie.dtend).t,
         calendar |-> calName,
         allDay |-> parseEventTime(ie.dtstart).allDay]

\* os.ReadDir returns the entries sorted by file name
CharRank(c) ==
    CASE c = "." -> 1 [] c = "_" -> 2 [] c = "a" -> 3 [] c = "c" -> 4
      [] c = "i" -> 5 [] c = "s" -> 6 [] c = "t" -> 7 [] OTHER -> 0

RECURSIVE NameLess(_, _)
NameLess(x, y) ==
    IF y = <<>> THEN FALSE
    ELSE IF x = <<>> THEN TRUE
    ELSE IF Head(x) # Head(y) THEN CharRank(Head(x)) < CharRank(Head(y))
    ELSE NameLess(Tail(x), Tail(y))

RECURSIVE SortedNames(_)
SortedNames(S) ==
    IF S = {} THEN <<>>
    ELSE LET m == CHOOSE x \in S : \A y \in S \ {x} : NameLess(x, y)
         IN  <<m>> \o SortedNames(S \ {m})

ReadDirOK(st, d) == d \in DOMAIN st /\ st[d].exists

ReadDir(st, d) == SortedNames(DOMAIN st[d].files)

RECURSIVE ReadEntries(_, _, _)
\* loadCalendarEvents' loop over the entries of one directory
ReadEntries(files, entries, calName) ==
    IF entries = <<>> THEN <<>>
    ELSE LET entry == Head(entries)
             rest == ReadEntries(files, Tail(entries), calName)
         IN  IF ~HasSuffix(entry, IcsSuffix) THEN rest
             ELSE IF ~ReadEventOK(files[entry]) THEN rest
             ELSE <<readEvent(files[entry], calName)>> \o rest

loadCalendarEvents(st, calName) ==
    LET dir == CalendarDir(calName)
    IN  ReadEntries(st[dir].files, ReadDir(st, dir), calName)

RECURSIVE LoadAll(_, _)
\* ListEvents' loop over the sources
LoadAll(st, srcs) ==
    IF srcs = <<>> THEN <<>>
    ELSE IF ~ReadDirOK(st, CalendarDir(Head(srcs).name)) THEN LoadAll(st, Tail(srcs))
    ELSE loadCalendarEvents(st, Head(srcs).name) \o LoadAll(st, Tail(srcs))

\* t.IsZero(), t.Before(u), t.After(u)
IsZero(t) == t = ZeroTime
Before(t, u) == t < u
After(t, u) == t > u

\* a filter that lets an event without a start pass
InRangeKeepsZeroStart(e, from, to) ==
    \/ IsZero(e.start)
    \/ /\ ~(~IsZero(from) /\ Before(e.start, from))
       /\ ~(~IsZero(to) /\ After(e.start, to))

\* a filter whose lower bound is exclusive
InRangeAfterFrom(e, from, to) ==
    /\ ~(~IsZero(from) /\ ~After(e.start, from))
    /\ ~(~IsZero(to) /\ After(e.start, to))

InRange(e, from, to) ==
    /\ ~(~IsZero(from) /\ Before(e.start, from))
    /\ ~(~IsZero(to) /\ After(e.start, to))

RECURSIVE FilterRange(_, _, _)
FilterRange(events, from, to) ==
    IF events = <<>> THEN <<>>
    ELSE IF InRange(Head(events), from, to)
         THEN <<Head(events)>> \o FilterRange(Tail(events), from, to)
         ELSE FilterRange(Tail(events), from, to)

\* a less function that orders by start, latest first
LessLatestFirst(x, y) == After(x.start, y.start)

\* the less function handed to sort.Slice
Less(x, y) == Before(x.start, y.start)

RECURSIVE Arrangements(_, _)
\* the arrangements of the elements of seq at the indexes in idx that never
\* put an element before one that is less than it
Arrangements(seq, idx) ==
    IF idx = {} THEN {<<>>}
    ELSE UNION { { <<seq[i]>> \o rest : rest \in Arrangements(seq, idx \ {i}) } :
                 i \in { k \in idx : \A j \in idx : ~Less(seq[j], seq[k]) } }

\* sort.Slice is not stable: every arrangement of the slice that the less
\* function accepts as sorted is an outcome
SortOutcomes(seq) == Arrangements(seq, 1..Len(seq))

ListEventsOutcomes(srcs, st, from, to) ==
    SortOutcomes(FilterRange(LoadAll(st, srcs), from, to))

RECURSIVE FindEntry(_, _, _, _)
\* GetEvent's inner loop: the first entry of a directory that decodes to uid
FindEntry(files, entries, calName, uid) ==
    IF entries = <<>> THEN <<>>
    ELSE LET entry == Head(entries)
             rest == FindEntry(files, Tail(entries), calName, uid)
         IN  IF ~HasSuffix(entry, IcsSuffix) THEN rest
             ELSE IF ~ReadEventOK(files[entry]) THEN rest
             ELSE IF readEvent(files[entry], calName).uid = uid
                  THEN <<[event |-> readEvent(files[entry], calName),
                          raw |-> files[entry]]>>
             ELSE rest

RECURSIVE GetEventInLast(_, _, _)
\* a lookup in which the source latest in the registry wins
GetEventInLast(st, srcs, uid) ==
    IF srcs = <<>> THEN <<>>
    ELSE LET name == Head(srcs).name
             dir == CalendarDir(name)
             found == IF ReadDirOK(st, dir)
                      THEN FindEntry(st[dir].files, ReadDir(st, dir), name, uid)
                      ELSE <<>>
             later == GetEventInLast(st, Tail(srcs), uid)
         IN  IF later # <<>> THEN later ELSE found

RECURSIVE GetEventIn(_, _, _)
\* GetEvent's loop over the sources: <<>> when no source holds the uid
GetEventIn(st, srcs, uid) ==
    IF srcs = <<>> THEN <<>>
    ELSE LET name == Head(srcs).name
             dir == CalendarDir(name)
             found == IF ReadDirOK(st, dir)
                      THEN FindEntry(st[dir].files, ReadDir(st, dir), name, uid)
                      ELSE <<>>
         IN  IF found # <<>> THEN found
             ELSE GetEventIn(st, Tail(srcs), uid)

(***************************************************************************)
(* The operations.  Each command runs to its end before the next starts;   *)
(* SyncAll takes one step per source of its loop.                          *)
(***************************************************************************)
Range(seq) == { seq[i] : i \in 1..Len(seq) }

SourceNames(srcs) == [i \in 1..Len(srcs) |-> srcs[i].name]

\* a lookup that stops at the first entry
HasNameFirstOnly(srcs, name) == srcs # <<>> /\ srcs[1].name = name

HasName(srcs, name) == \E i \in 1..Len(srcs) : srcs[i].name = name

NoRet == [op |-> "none"]

NoPrev == [sources |-> <<>>, store |-> <<>>]

Snapshot == [sources |-> sources, store |-> store]

\* no name: the empty string is not a name the model adds
NoName == <<>>

Init ==
    /\ sources = <<>>
    /\ store = [d \in Dirs |-> NoDir]
    /\ pc = "idle"
    /\ todo = <<>>
    /\ log = <<>>
    /\ ret = NoRet
    /\ prev = NoPrev
    /\ watch = NoName

\* the URLs a name is added with: a new name with the first, a name the
\* registry holds with either
URLsFor(name) ==
    IF \E s \in Range(sources) : s.name = name THEN {"u1", "u2"} ELSE {"u1"}

AddSource(name, url) ==
    /\ pc = "idle"
    /\ Len(sources) < MaxSources \/ \E s \in Range(sources) : s.name = name
    /\ IF HasName(sources, name)
       THEN /\ ret' = [op |-> "add", name |-> name, url |-> url, err |-> "exists"]
            /\ UNCHANGED sources
       ELSE /\ sources' = Append(sources, Source(name, url))
            /\ ret' = [op |-> "add", name |-> name, url |-> url, err |-> ""]
    /\ pc' = "returned"
    /\ prev' = Snapshot
    /\ UNCHANGED <<store, todo, log, watch>>

\* the sources RemoveSource keeps
FilterOut(srcs, name) ==
    LET KeepOther(s) == s.name # name
    IN  SelectSeq(srcs, KeepOther)

\* a RemoveSource that removes the directory before it looks the name up
RemoveSourceStepRemovesFirst(name) ==
    /\ pc = "idle"
    /\ store' = RemoveAll(store, CalendarDir(name))
    /\ IF ~HasName(sources, name)
       THEN /\ ret' = [op |-> "remove", name |-> name, err |-> "notfound"]
            /\ UNCHANGED sources
       ELSE /\ sources' = FilterOut(sources, name)
            /\ ret' = [op |-> "remove", name |-> name, err |-> ""]
    /\ pc' = "returned"
    /\ prev' = Snapshot
    /\ UNCHANGED <<todo, log>>

RemoveSourceStep(name) ==
    /\ pc = "idle"
    /\ IF ~HasName(sources, name)
       THEN /\ ret' = [op |-> "remove", name |-> name, err |-> "notfound"]
            /\ UNCHANGED <<sources, store>>
       ELSE /\ store' = RemoveAll(store, CalendarDir(name))
            /\ sources' = FilterOut(sources, name)
            /\ ret' = [op |-> "remove", name |-> name, err |-> ""]
    /\ pc' = "returned"
    /\ prev' = Snapshot
    /\ UNCHANGED <<todo, log>>

RemoveSource(name) == RemoveSourceStep(name) /\ UNCHANGED watch

\* a SyncAll that returns nil when the registry is empty
SyncAllNoCheck ==
    /\ pc = "idle"
    /\ IF Len(sources) = 0
       THEN /\ ret' = [op |-> "syncAll", err |-> ""]
            /\ pc' = "returned"
            /\ UNCHANGED todo
       ELSE /\ ret' = NoRet
            /\ pc' = "sync"
            /\ todo' = sources
    /\ prev' = Snapshot
    /\ UNCHANGED <<sources, store, log, watch>>

\* SyncAll up to its loop: the registry is loaded once
SyncAll ==
    /\ pc = "idle"
    /\ IF Len(sources) = 0
       THEN /\ ret' = [op |-> "syncAll", err |-> "nosources"]
            /\ pc' = "returned"
            /\ UNCHANGED todo
       ELSE /\ ret' = NoRet
            /\ pc' = "sync"
            /\ todo' = sources
    /\ prev' = Snapshot
    /\ UNCHANGED <<sources, store, log, watch>>

\* a syncSource that clears the directory before it fetches
SyncSourceStepClearsFirst(resp) ==
    /\ pc = "sync"
    /\ LET s == Head(todo)
           err == SyncError(resp)
           dir == CalendarDir(s.name)
       IN  IF err # ""
           THEN /\ store' = ClearDir(MkdirAll(store, dir), dir)
                /\ ret' = [op |-> "syncSource", name |-> s.name, resp |-> resp,
                           err |-> err, count |-> 0]
           ELSE /\ store' = SyncStore(store, s.name, resp.events)
                /\ ret' = [op |-> "syncSource", name |-> s.name, resp |-> resp,
                           err |-> "", count |-> SyncCount(resp.events)]
    /\ pc' = "synced"
    /\ prev' = Snapshot
    /\ UNCHANGED <<sources, todo, log>>

\* syncSource(s) for the source SyncAll's loop is at, on what the fetch gives
SyncSourceStep(resp) ==
    /\ pc = "sync"
    /\ LET s == Head(todo)
           err == SyncError(resp)
       IN  IF err # ""
           THEN /\ UNCHANGED store
                /\ ret' = [op |-> "syncSource", name |-> s.name, resp |-> resp,
                           err |-> err, count |-> 0]
           ELSE /\ store' = SyncStore(store, s.name, resp.events)
                /\ ret' = [op |-> "syncSource", name |-> s.name, resp |-> resp,
                           err |-> "", count |-> SyncCount(resp.events)]
    /\ pc' = "synced"
    /\ prev' = Snapshot
    /\ UNCHANGED <<sources, todo, log>>

SyncSource(resp) == SyncSourceStep(resp) /\ UNCHANGED watch

\* a loop that returns at the first source whose sync failed
SyncNextStopsAtError ==
    /\ pc = "synced"
    /\ log' = Append(log, [name |-> ret.name, ok |-> ret.err = ""])
    /\ IF Tail(todo) = <<>> \/ ret.err # ""
       THEN /\ pc' = "returned"
            /\ todo' = <<>>
            /\ ret' = [op |-> "syncAll", err |-> ret.err]
       ELSE /\ pc' = "sync"
            /\ todo' = Tail(todo)
            /\ ret' = NoRet
    /\ prev' = NoPrev
    /\ UNCHANGED <<sources, store, watch>>

\* SyncAll's loop after syncSource returned: print the outcome, go on with
\* the next source, return nil after the last
SyncNext ==
    /\ pc = "synced"
    /\ log' = Append(log, [name |-> ret.name, ok |-> ret.err = ""])
    /\ todo' = Tail(todo)
    /\ IF Tail(todo) = <<>>
       THEN /\ pc' = "returned"
            /\ ret' = [op |-> "syncAll", err |-> ""]
       ELSE /\ pc' = "sync"
            /\ ret' = NoRet
    /\ prev' = NoPrev
    /\ UNCHANGED <<sources, store, watch>>

ListEvents(from, to) ==
    /\ pc = "idle"
    /\ \E events \in ListEventsOutcomes(sources, store, from, to) :
          ret' = [op |-> "list", from |-> from, to |-> to, events |-> events]
    /\ pc' = "returned"
    /\ prev' = Snapshot
    /\ UNCHANGED <<sources, store, todo, log, watch>>

GetEvent(uid) ==
    /\ pc = "idle"
    /\ LET found == GetEventIn(store, sources, uid)
       IN  ret' = [op |-> "get", uid |-> uid, found |-> found,
                   err |-> IF found = <<>> THEN "notfound" ELSE ""]
    /\ pc' = "returned"
    /\ prev' = Snapshot
    /\ UNCHANGED <<sources, store, todo, log, watch>>

\* the command's process ends
Exit ==
    /\ pc = "returned"
    /\ pc' = "idle"
    /\ ret' = NoRet
    /\ prev' = NoPrev
    /\ todo' = <<>>
    /\ log' = <<>>
    /\ UNCHANGED <<sources, store, watch>>

Next ==
    \/ \E name \in Names : \E url \in URLsFor(name) : AddSource(name, url)
    \/ \E name \in Names : RemoveSource(name)
    \/ SyncAll
    \/ \E resp \in Responses : SyncSource(resp)
    \/ SyncNext
    \/ \E from \in Times, to \in Times : ListEvents(from, to)
    \/ \E uid \in UIDs : GetEvent(uid)
    \/ Exit

Spec == Init /\ [][Next]_vars

(***************************************************************************)
(* The same program with the history variable kept: watch is the name of   *)
(* the source removed last, until a sync of a source of that name succeeds.*)
(***************************************************************************)
RemoveSourceWatched(name) ==
    /\ RemoveSourceStep(name)
    /\ watch' = IF HasName(sources, name) THEN name ELSE watch

SyncSourceWatched(resp) ==
    /\ SyncSourceStep(resp)
    /\ watch' = IF Head(todo).name = watch /\ SyncError(resp) = ""
                THEN NoName ELSE watch

NextWatch ==
    \/ \E name \in Names : \E url \in URLsFor(name) : AddSource(name, url)
    \/ \E name \in Names : RemoveSourceWatched(name)
    \/ SyncAll
    \/ \E resp \in Responses : SyncSourceWatched(resp)
    \/ SyncNext
    \/ \E from \in Times, to \in Times : ListEvents(from, to)
    \/ \E uid \in UIDs : GetEvent(uid)
    \/ Exit

SpecWatch == Init /\ [][NextWatch]_vars

(***************************************************************************)
(* The program on feeds of one event whose DTSTART ranges over the forms   *)
(* a time property takes: absent, a date-time or a bare date or neither as *)
(* value, with and without VALUE=DATE, without TZID, with a TZID of the    *)
(* host's database and with one that is not in it.  The event is synced    *)
(* into one source, read back and queried.                                 *)
(***************************************************************************)
TimeProps ==
    {NoProp} \cup
    { [present |-> TRUE, form |-> f, w |-> w, valueParam |-> v, tzid |-> z] :
         f \in {"datetime", "date", "other"}, w \in 2..MaxWall,
         v \in {<<>>, <<"DATE">>}, z \in {<<>>, <<"tzA">>, <<"tzX">>} }

TimeResponses ==
    { [transport |-> FALSE, status |-> 200, decodes |-> TRUE,
       events |-> << Comp(<<"c">>, "s1", "", "", p, NoProp, TRUE) >>] :
         p \in TimeProps }

NextTime ==
    \/ AddSource(<<"a">>, "u1")
    \/ SyncAll
    \/ \E resp \in TimeResponses : SyncSource(resp)
    \/ SyncNext
    \/ \E from \in Times, to \in Times : ListEvents(from, to)
    \/ GetEvent(<<"c">>)
    \/ Exit

SpecTime == Init /\ [][NextTime]_vars

(***************************************************************************)
(* What the properties below speak of.                                     *)
(***************************************************************************)
\* syncSource has just returned nil for the source the loop is at
SyncedOK == pc = "synced" /\ ret.err = ""

\* the events a listing of one source's directory gives
StoredEvents(st, name) ==
    IF ReadDirOK(st, CalendarDir(name)) THEN loadCalendarEvents(st, name) ELSE <<>>

StoredUids(st, name) == { e.uid : e \in Range(StoredEvents(st, name)) }

\* the non-empty uids of a feed
FeedUids(events) == { c.uid : c \in Range(events) } \ {<<>>}

\* the component at i is one syncSource writes a file for
Written(events, i) == events[i].uid # <<>> /\ events[i].encodes

\* the component at i is written and no later write goes to the same file
Survives(events, i) ==
    /\ Written(events, i)
    /\ \A j \in 1..Len(events) :
          j > i /\ Written(events, j)
             => EventFileName(events[j].uid) # EventFileName(events[i].uid)

SurvivingUids(events) ==
    { events[i].uid : i \in { k \in 1..Len(events) : Survives(events, k) } }

C2_Idempotent ==
    SyncedOK => SyncStore(store, ret.name, ret.resp.events) = store

\* a sync that found the store as a sync on the same feed left it, records
\* in it, and left it so
C2_Witness ==
    /\ SyncedOK
    /\ StoredUids(store, ret.name) # {}
    /\ store = prev.store
    /\ Len(ret.resp.events) = MaxFeedLen

(***************************************************************************)
(* C3 as stated: every component with a non-empty uid that a sync writes   *)
(* is returned by the listing of that source with the uid, summary, start  *)
(* and all-day flag it had in the feed, and with its description, location *)
(* and end where the feed gave them; each stored record holds exactly one  *)
(* component.                                                              *)
(***************************************************************************)
ListsAs(e, c) ==
    /\ e.uid = c.uid
    /\ e.summary = c.summary
    /\ e.start = parseEventTime(c.dtstart).t
    /\ e.allDay = parseEventTime(c.dtstart).allDay
    /\ c.description # "" => e.description = c.description
    /\ c.location # "" => e.location = c.location
    /\ c.dtend.present => e.end = parseEventTime(c.dtend).t

C3_AsStated ==
    SyncedOK =>
        /\ \A i \in 1..Len(ret.resp.events) :
              Written(ret.resp.events, i)
                 => \E e \in Range(StoredEvents(store, ret.name)) :
                       ListsAs(e, ret.resp.events[i])
        /\ \A f \in DOMAIN store[CalendarDir(ret.name)].files :
              Len(DecodeEvents(store[CalendarDir(ret.name)].files[f])) = 1

(***************************************************************************)
(* C4: names in the registry are unique in every state add and remove      *)
(* reach from the empty registry; adding a name the registry holds fails   *)
(* and leaves the registry, the entry's URL included, as it was.           *)
(***************************************************************************)
C4_UniqueNames ==
    /\ \A i \in 1..Len(sources) : \A j \in 1..Len(sources) :
          i # j => sources[i].name # sources[j].name
    /\ (pc = "returned" /\ ret.op = "add"
           /\ ret.name \in Range(SourceNames(prev.sources)))
          => ret.err = "exists" /\ sources = prev.sources

\* an add of the second entry's name with another URL has failed
C4_Witness ==
    /\ pc = "returned" /\ ret.op = "add" /\ ret.err = "exists"
    /\ Len(sources) = 2
    /\ sources[2].name = ret.name
    /\ sources[2].url # ret.url

(***************************************************************************)
(* C6 as stated: the file name derived from a uid is injective, two        *)
(* different uids never map to the same file, so that of two written       *)
(* components of one feed with different uids neither overwrites the other *)
(* and both are stored after the sync.                                     *)
(***************************************************************************)
C6_AsStated ==
    SyncedOK =>
        \A i \in 1..Len(ret.resp.events) : \A j \in 1..Len(ret.resp.events) :
            ( /\ Written(ret.resp.events, i)
              /\ Written(ret.resp.events, j)
              /\ ret.resp.events[i].uid # ret.resp.events[j].uid )
               => /\ sanitizeFilename(ret.resp.events[i].uid)
                        # sanitizeFilename(ret.resp.events[j].uid)
                  /\ ret.resp.events[i].uid \in StoredUids(store, ret.name)
                  /\ ret.resp.events[j].uid \in StoredUids(store, ret.name)

(***************************************************************************)
(* C7 as stated: the count a sync reports for a source equals the number   *)
(* of event records in that source's store when the sync finishes.         *)
(***************************************************************************)
C7_AsStated ==
    SyncedOK =>
        /\ ret.count = Cardinality(DOMAIN store[CalendarDir(ret.name)].files)
        /\ ret.count = Len(StoredEvents(store, ret.name))

(***************************************************************************)
(* C5 as stated: after removeSource(name) succeeds, name is not in the     *)
(* registry, and from then on, until a source of that name is synced       *)
(* again, neither ListEvents nor GetEvent returns an event under that      *)
(* name.                                                                   *)
(***************************************************************************)
ListedUnder(name) ==
    { e \in Range(LoadAll(store, sources)) : e.calendar = name }

GotUnder(name) ==
    { uid \in UIDs : /\ GetEventIn(store, sources, uid) # <<>>
                     /\ GetEventIn(store, sources, uid)[1].event.calendar = name }

C5_AsStated ==
    /\ (pc = "returned" /\ ret.op = "remove" /\ ret.err = "")
          => ret.name \notin Range(SourceNames(sources))
    /\ watch # NoName => ListedUnder(watch) = {} /\ GotUnder(watch) = {}

(***************************************************************************)
(* C8: ListEvents(from, to) returns exactly the stored, decodable events   *)
(* of the configured sources whose start is in the range: with a non-zero  *)
(* from none that starts before it, with a non-zero to none that starts    *)
(* after it, and every other one; a zero bound does not bound that side.   *)
(***************************************************************************)
ListReturned == pc = "returned" /\ ret.op = "list"

StoredOfSources ==
    UNION { Range(StoredEvents(store, s.name)) : s \in Range(sources) }

WithinBounds(e, from, to) ==
    /\ from = 0 \/ e.start >= from
    /\ to = 0 \/ e.start <= to

C8_RangeFilter ==
    ListReturned =>
        Range(ret.events)
           = { e \in StoredOfSources : WithinBounds(e, ret.from, ret.to) }

\* a listing with both bounds set that returned an event starting at from
\* and left out one that starts before from and one that starts after to
C8_Witness ==
    /\ ListReturned
    /\ ret.from # 0 /\ ret.to # 0
    /\ \E e \in Range(ret.events) : e.start = ret.from
    /\ \E e \in StoredOfSources : e.start < ret.from
    /\ \E e \in StoredOfSources : e.start > ret.to

(***************************************************************************)
(* C9: the sequence ListEvents returns is in non-decreasing order of start *)
(* and is a permutation of the events that passed the filter: the sort     *)
(* drops none and repeats none.                                            *)
(***************************************************************************)
Occurs(seq, e) == Cardinality({ i \in 1..Len(seq) : seq[i] = e })

IsPermutation(p, q) ==
    /\ Len(p) = Len(q)
    /\ \A e \in Range(p) \cup Range(q) : Occurs(p, e) = Occurs(q, e)

C9_Sorted ==
    ListReturned =>
        /\ \A i \in 1..Len(ret.events) : \A j \in 1..Len(ret.events) :
              i < j => ret.events[i].start <= ret.events[j].start
        /\ IsPermutation(ret.events,
                         FilterRange(LoadAll(store, sources), ret.from, ret.to))
        /\ Len(ret.events)
              = Cardinality({ e \in StoredOfSources :
                                 WithinBounds(e, ret.from, ret.to) })

\* a listing of three events or more, two of them with the same start
C9_Witness ==
    /\ ListReturned
    /\ Len(ret.events) >= 3
    /\ ret.events[1].start = ret.events[2].start
    /\ ret.events[2].start < ret.events[Len(ret.events)].start

(***************************************************************************)
(* C10: a sync error of one source does not abort SyncAll.  Every source   *)
(* of the registry is attempted exactly once, in registry order: the       *)
(* sources attempted followed by those still to do are the registry, and   *)
(* at the end the sources attempted are the registry; SyncAll returns nil. *)
(* A source whose sync succeeds is fully synced whatever the outcome of    *)
(* the sources before it.                                                  *)
(***************************************************************************)
LogNames == [i \in 1..Len(log) |-> log[i].name]

C10_SyncAll ==
    /\ pc \in {"sync", "synced"}
          => /\ todo # <<>>
             /\ SourceNames(sources) = LogNames \o SourceNames(todo)
    /\ pc = "synced" => ret.name = Head(todo).name
    /\ SyncedOK
          => LET stored == Range(StoredEvents(store, ret.name))
             IN  \A i \in 1..Len(ret.resp.events) :
                    Survives(ret.resp.events, i)
                       => \E e \in stored : ListsAs(e, ret.resp.events[i])
    /\ (pc = "returned" /\ ret.op = "syncAll" /\ sources # <<>>)
          => /\ ret.err = ""
             /\ LogNames = SourceNames(sources)
             /\ \A i \in 1..Len(log) :
                   log[i].ok => ReadDirOK(store, CalendarDir(log[i].name))

\* a run over two sources in which the first failed and the second stored
\* events
C10_Witness ==
    /\ pc = "returned" /\ ret.op = "syncAll"
    /\ Len(log) = 2
    /\ ~log[1].ok /\ log[2].ok
    /\ StoredUids(store, log[2].name) # {}

(***************************************************************************)
(* C11: GetEvent(uid) returns the event and the stored bytes of the first  *)
(* record whose decoded uid is uid, the sources taken in registry order,   *)
(* so that of two sources that hold the uid the earlier one wins; it       *)
(* returns the not-found error exactly when no configured source holds a   *)
(* decodable record with that uid.                                         *)
(***************************************************************************)
GetReturned == pc = "returned" /\ ret.op = "get"

\* the files of source i's directory that decode to an event with this uid
HoldsUid(i, uid) ==
    LET dir == CalendarDir(sources[i].name)
    IN  IF ~ReadDirOK(store, dir) THEN {}
        ELSE { f \in DOMAIN store[dir].files :
                  /\ HasSuffix(f, IcsSuffix)
                  /\ ReadEventOK(store[dir].files[f])
                  /\ DecodeEvents(store[dir].files[f])[1].uid = uid }

C11_FirstMatch ==
    GetReturned =>
        LET holders == { i \in 1..Len(sources) : HoldsUid(i, ret.uid) # {} }
        IN  /\ (ret.err = "notfound") = (holders = {})
            /\ (ret.found = <<>>) = (holders = {})
            /\ holders # {}
                  => \E i \in holders :
                        /\ \A j \in holders : i <= j
                        /\ ret.found[1].event.calendar = sources[i].name
                        /\ ret.found[1].event.uid = ret.uid
                        /\ \E f \in HoldsUid(i, ret.uid) :
                              LET raw == store[CalendarDir(sources[i].name)].files[f]
                              IN  /\ ret.found[1].raw = raw
                                  /\ ListsAs(ret.found[1].event,
                                             DecodeEvents(raw)[1])

\* a lookup of a uid that two sources hold in different directories
C11_Witness ==
    /\ GetReturned
    /\ ret.found # <<>>
    /\ Len(sources) = 2
    /\ CalendarDir(sources[1].name) # CalendarDir(sources[2].name)
    /\ HoldsUid(1, ret.uid) # {} /\ HoldsUid(2, ret.uid) # {}

(***************************************************************************)
(* C12: RemoveSource(name) with a name the registry does not hold returns  *)
(* the not-found error and changes nothing: the registry and the stored    *)
(* records of every source are as they were before the call.               *)
(***************************************************************************)
RemoveReturned == pc = "returned" /\ ret.op = "remove"

C12_RemoveNotFound ==
    RemoveReturned =>
        /\ (ret.err = "notfound") = (ret.name \notin Range(SourceNames(prev.sources)))
        /\ ret.name \notin Range(SourceNames(prev.sources))
              => /\ sources = prev.sources
                 /\ store = prev.store
                 /\ \A s \in Range(sources) :
                       StoredEvents(store, s.name) = StoredEvents(prev.store, s.name)

\* a failed removal in a state where a source holds records, in the very
\* directory the name given stands for
C12_Witness ==
    /\ RemoveReturned
    /\ ret.err = "notfound"
    /\ store[CalendarDir(ret.name)].files # <<>>
    /\ \E s \in Range(sources) : StoredUids(store, s.name) # {}

(***************************************************************************)
(* C13: SyncAll with an empty registry (no registry file, or one without   *)
(* entries) returns the no-sources error, fetches nothing and leaves the   *)
(* registry and the store as they were.                                    *)
(***************************************************************************)
C13_NoSources ==
    /\ (pc = "returned" /\ ret.op = "syncAll" /\ sources = <<>>)
          => /\ ret.err = "nosources"
             /\ log = <<>>
             /\ todo = <<>>
             /\ prev.sources = <<>>
             /\ store = prev.store
    /\ pc \in {"sync", "synced"} => sources # <<>>
    /\ (pc = "returned" /\ ret.op = "syncAll" /\ ret.err = "nosources")
          => sources = <<>>

\* SyncAll has found the registry empty and returned the error
C13_Witness ==
    /\ pc = "returned" /\ ret.op = "syncAll" /\ ret.err = "nosources"
    /\ sources = <<>>
    /\ log = <<>>

(***************************************************************************)
(* C16 as stated: records of different sources never collide.  A sync or a *)
(* removal of one registry entry creates, overwrites or deletes no stored  *)
(* record of an entry with another name, and does not change the registry  *)
(* (a removal changes it by the removed entry only).                       *)
(***************************************************************************)
\* the file names and bytes stored for a source
RecordsOf(st, name) ==
    IF ReadDirOK(st, CalendarDir(name)) THEN st[CalendarDir(name)].files ELSE <<>>

C16_AsStated ==
    /\ pc = "synced"
          => /\ sources = prev.sources
             /\ \A s \in Range(sources) :
                   s.name # ret.name
                      => RecordsOf(store, s.name) = RecordsOf(prev.store, s.name)
    /\ (RemoveReturned /\ ret.err = "")
          => /\ sources = FilterOut(prev.sources, ret.name)
             /\ \A s \in Range(sources) :
                   RecordsOf(store, s.name) = RecordsOf(prev.store, s.name)

(***************************************************************************)
(* C17: a sync of a source that fails at the fetch (transport failure or   *)
(* a status other than OK) or at the decode of the feed leaves the store   *)
(* as it was, the records of that source included: ListEvents and GetEvent *)
(* answer as before the failed sync.                                       *)
(***************************************************************************)
SyncedErr == pc = "synced" /\ ret.err # ""

C17_FailedSync ==
    /\ pc = "synced"
          => (ret.err # "") = (\/ ret.resp.transport
                               \/ ret.resp.status # 200
                               \/ ~ret.resp.decodes)
    /\ SyncedErr
          => /\ store = prev.store
             /\ sources = prev.sources
             /\ RecordsOf(store, ret.name) = RecordsOf(prev.store, ret.name)
             /\ LET now == LoadAll(store, sources)
                    before == LoadAll(prev.store, prev.sources)
                IN  /\ SortOutcomes(now) = SortOutcomes(before)
                    /\ \A from \in Times, to \in Times :
                          FilterRange(now, from, to) = FilterRange(before, from, to)
             /\ \A uid \in UIDs :
                   GetEventIn(store, sources, uid)
                      = GetEventIn(prev.store, prev.sources, uid)

\* a sync that failed at the decode for a source that held records
C17_Witness ==
    /\ SyncedErr
    /\ ret.err = "parse"
    /\ StoredUids(prev.store, ret.name) # {}
    /\ StoredUids(store, ret.name) # {}

(***************************************************************************)
(* What the properties of the time resolver speak of: the DTSTART of the   *)
(* one event of the feed just synced, and the event read back from the     *)
(* record the sync stored.                                                 *)
(***************************************************************************)
TimeSynced ==
    /\ SyncedOK
    /\ Len(ret.resp.events) = 1
    /\ Len(StoredEvents(store, ret.name)) = 1

TheProp == ret.resp.events[1].dtstart

TheEvent == StoredEvents(store, ret.name)[1]

HasDateParam(p) == \E i \in 1..Len(p.valueParam) : p.valueParam[i] = "DATE"

(***************************************************************************)
(* C14 as stated: whenever the property has VALUE=DATE the resolver gives  *)
(* allDay = true, and for a bare date the instant is that date with no     *)
(* time of day and no zone conversion, whatever the TZID; a date-time      *)
(* value without VALUE=DATE gives allDay = false.                          *)
(***************************************************************************)
C14_AsStated ==
    TimeSynced =>
        /\ (TheProp.present /\ HasDateParam(TheProp))
              => /\ TheEvent.allDay
                 /\ TheProp.form = "date" => TheEvent.start = TheProp.w
        /\ (TheProp.present /\ TheProp.form = "datetime" /\ ~HasDateParam(TheProp))
              => ~TheEvent.allDay

(***************************************************************************)
(* C14, amended: whenever the property has VALUE=DATE and its value is a   *)
(* well-formed bare date, the resolver gives allDay = true and the instant *)
(* is that date with no time of day and no zone conversion, the same with  *)
(* and without a TZID; with VALUE=DATE and a value that is not a bare date *)
(* it gives the zero instant and allDay = false.  A date-time value        *)
(* without VALUE=DATE gives allDay = false.                                *)
(***************************************************************************)
C14_AllDay ==
    TimeSynced =>
        /\ (TheProp.present /\ HasDateParam(TheProp) /\ TheProp.form = "date")
              => /\ TheEvent.allDay
                 /\ TheEvent.start = TheProp.w
                 /\ parseEventTime(TheProp)
                       = parseEventTime([TheProp EXCEPT !.tzid = <<>>])
        /\ (TheProp.present /\ HasDateParam(TheProp) /\ TheProp.form # "date")
              => ~TheEvent.allDay /\ TheEvent.start = 0
        /\ (TheProp.present /\ TheProp.form = "datetime" /\ ~HasDateParam(TheProp))
              => ~TheEvent.allDay

\* a bare date with VALUE=DATE and a TZID of the host's database was synced
C14_Witness ==
    /\ TimeSynced
    /\ TheProp.present /\ HasDateParam(TheProp) /\ TheProp.form = "date"
    /\ TheProp.tzid = <<"tzA">>
    /\ TheEvent.allDay

(***************************************************************************)
(* C15 as stated: a date-time property whose TZID cannot be resolved is    *)
(* read in the local zone of the process: the resolver gives that instant  *)
(* with allDay = false, the result it gives for the same value without a   *)
(* TZID.                                                                   *)
(***************************************************************************)
C15_AsStated ==
    ( /\ TimeSynced
      /\ TheProp.present /\ TheProp.form = "datetime" /\ ~HasDateParam(TheProp)
      /\ TheProp.tzid # <<>> /\ TheProp.tzid[1] \notin KnownZones )
       => /\ ~TheEvent.allDay
          /\ TheEvent.start = TheProp.w - 1
          /\ [t |-> TheEvent.start, allDay |-> TheEvent.allDay]
                = parseEventTime([TheProp EXCEPT !.tzid = <<>>])

(***************************************************************************)
(* C18: an event whose start property is missing, or has a value that      *)
(* neither the date-time parse nor the bare-date fallback accepts, gets    *)
(* the zero start and allDay = false; sync writes it and the store keeps   *)
(* it, GetEvent returns it, and ListEvents returns it exactly when from is *)
(* zero.                                                                   *)
(***************************************************************************)
\* the resolver's parses of the property all fail, or there is no property
NoStart(p) ==
    \/ ~p.present
    \/ /\ ~HasDateParam(p)
       /\ \A zone \in KnownZones : ~PropDateTime(p, zone).ok
       /\ ~ParseDate(p).ok

\* the components stored for the configured sources
StoredComps ==
    UNION { { DecodeEvents(RecordsOf(store, s.name)[f])[1] :
                 f \in DOMAIN RecordsOf(store, s.name) } : s \in Range(sources) }

====
